---- MODULE Spec2Model ----
(***************************************************************************)
(* Model of PyP-BEAGLE's photometry post-processing:                       *)
(*   Photometry.plot_marginal and Photometry.plot_replicated_data          *)
(*   (src/PyP-BEAGLE/bangs_photometry.py), ObservedCatalogue's             *)
(*   extract_fluxes, and the helpers prepare_plot_saving,                  *)
(*   prepare_data_saving and match_ID (src/PyP-BANGS/bangs_utils.py).      *)
(*                                                                         *)
(* Numbers.  Fluxes are integers in nanoJy, i.e. the arrays as they are    *)
(* after the unit conversions of lines 171-172, 206, 421-422, 449 and 461. *)
(* A quotient n/d of the code is kept exact as the pair <<n, d>>; numpy    *)
(* raises nothing on a zero divisor (it yields inf or nan), so a pair with *)
(* d = 0 stands for that non-finite value.  Floating-point rounding is not *)
(* modelled.                                                               *)
(***************************************************************************)
EXTENDS Integers, Sequences, FiniteSets, TLC

VARIABLES
    wl_eff,          \* filters.data['wl_eff']: effective wavelength per band
    obs_flux,        \* observed flux per band (catalogue row of the object)
    obs_flux_err,    \* observed error per band; 0 marks a band without measurement
    model_sed,       \* 'marginal photometry' table: model_sed[band][sample]
    probability,     \* 'posterior pdf' table, column 'probability', per sample
    replic_data,     \* replicated-data table: rows [row_index, flux per band]
    attrs,           \* optional statistics present on the object: "logEvidence", "PPC.data"
    fs,              \* files in <results_dir>/pybangs/plot: <<ID, kind, stamp>>
    plot_dir,        \* whether the directory <results_dir>/pybangs/plot exists
    now,             \* datetime.now(), in seconds
    rng,             \* state of numpy's global random generator
    last,            \* what the most recent call did and computed
    catalogue,       \* the object's catalogue row and the filters' min_rel_err, per band
    present,         \* required inputs on disk: <<"row" | "posterior" | "replicated", ID>>
    modules,         \* names in sys.modules that the code tests for
    open,            \* resources opened and not closed: <<"figure" | handle, ID>>
    data_fs,         \* files in <results_dir>/pybangs/data
    data_dir         \* whether the directory <results_dir>/pybangs/data exists

vars == <<wl_eff, obs_flux, obs_flux_err, model_sed, probability, replic_data,
          attrs, fs, plot_dir, now, rng, last,
          catalogue, present, modules, open, data_fs, data_dir>>

data_vars == <<wl_eff, obs_flux, obs_flux_err, model_sed, probability, replic_data, attrs,
               catalogue, present, modules>>

\* The data directory, which the plotting methods never write to.
store_vars == <<data_fs, data_dir>>

(***************************************************************************)
(* Bounds of the model.                                                    *)
(***************************************************************************)
MaxFlux == 1
MaxErr == 2
MaxTime == 1
MaxGap == 2
MaxWeight == 2
MaxLen == 3
MaxID == 3
RngMod == 4

\* Object IDs of the catalogue.
IDs == {1, 2}

(***************************************************************************)
(* Arithmetic helpers.                                                     *)
(***************************************************************************)
Sq(x) == x * x

Abs(x) == IF x < 0 THEN -x ELSE x

\* numpy true division n / d, kept exact.
Quot(n, d) == <<n, d>>

IsFinite(q) == q[2] # 0

\* q1 > q2 for finite quotients with positive divisors.
RGt(q1, q2) == q1[1] * q2[2] > q2[1] * q1[2]

REq(q1, q2) == q1[1] * q2[2] = q2[1] * q1[2]

RAdd(q1, q2) == <<q1[1] * q2[2] + q2[1] * q1[2], q1[2] * q2[2]>>

RECURSIVE SeqSum(_)
SeqSum(s) == IF s = <<>> THEN 0 ELSE s[1] + SeqSum(Tail(s))

\* np.sum(..., axis=0) of quotients, in index order.
RECURSIVE RSum(_)
RSum(s) == IF s = <<>> THEN <<0, 1>> ELSE RAdd(s[1], RSum(Tail(s)))

\* The elements of an integer set in increasing order.
RECURSIVE SortedSeq(_)
SortedSeq(S) ==
    IF S = {} THEN <<>>
    ELSE LET m == CHOOSE x \in S : \A y \in S : x <= y
         IN  <<m>> \o SortedSeq(S \ {m})

SeqMin(s) == CHOOSE x \in {s[k] : k \in DOMAIN s} : \A k \in DOMAIN s : x <= s[k]

SeqMax(s) == CHOOSE x \in {s[k] : k \in DOMAIN s} : \A k \in DOMAIN s : x >= s[k]

(***************************************************************************)
(* Posterior-predictive check of plot_replicated_data.                     *)
(* Parameters: obs, err (per band), ms (model_sed), rd (replic_data).      *)
(***************************************************************************)
n_replicated_of(rd) == Len(rd)

\* line 444: the first column is row_index, the others are the bands.
n_bands_of(rd) == Len(rd[1].flux)

\* lines 446-449 taking the posterior sample at the draw's own position.
noiseless_flux_by_position(ms, rd, i, k) == ms[i][k]

\* lines 446-449: the model flux of the posterior sample each draw came from.
noiseless_flux(ms, rd, i, k) == ms[i][rd[k].row_index]

\* replic_data.data.field(i+1)/1.E-09
replic_column(rd, i) == [k \in 1..Len(rd) |-> rd[k].flux[i]]

\* lines 424, 452 with >= in place of >: bands without measurement pass.
ok_bands_nonnegative(err) == SortedSeq({i \in DOMAIN err : err[i] >= 0})

\* lines 424, 452: np.where(obs_flux_err > 0.)[0], increasing indices.
ok_bands(err) == SortedSeq({i \in DOMAIN err : err[i] > 0})

\* line 460
band_obs_discr(obs, err, ms, rd, i) ==
    [k \in 1..Len(rd) |-> Quot(Sq(obs[i] - noiseless_flux(ms, rd, i, k)), Sq(err[i]))]

\* line 461
band_repl_discr(err, ms, rd, i) ==
    [k \in 1..Len(rd) |->
        Quot(Sq(rd[k].flux[i] - noiseless_flux(ms, rd, i, k)), Sq(err[i]))]

\* np.count_nonzero(repl_discr >= obs_discr): ties counted.
count_exceeding_or_equal(repl, obs) ==
    Cardinality({k \in DOMAIN repl : ~RGt(obs[k], repl[k])})

\* np.count_nonzero(repl_discr > obs_discr)
count_exceeding(repl, obs) ==
    Cardinality({k \in DOMAIN repl : RGt(repl[k], obs[k])})

\* lines 455-465: the p-value of each band, as <<count, n_replicated>>;
\* a band without measurement keeps the 0 of np.zeros.
p_value_bands(obs, err, ms, rd) ==
    [i \in 1..n_bands_of(rd) |->
        IF err[i] > 0
        THEN Quot(count_exceeding(band_repl_discr(err, ms, rd, i),
                                  band_obs_discr(obs, err, ms, rd, i)),
                  n_replicated_of(rd))
        ELSE Quot(0, 1)]

\* lines 456, 463: replic_fluxes as left by the band loop: rows of the bands
\* without measurement stay zero.
replic_fluxes_ok(err, rd, i, k) == IF err[i] > 0 THEN rd[k].flux[i] ELSE 0

\* line 475
joint_obs_discr(obs, err, ms, rd) ==
    LET ok == ok_bands(err)
    IN  [k \in 1..Len(rd) |->
            RSum([j \in 1..Len(ok) |->
                     Quot(Sq(obs[ok[j]] - noiseless_flux(ms, rd, ok[j], k)),
                          Sq(err[ok[j]]))])]

\* line 476
joint_repl_discr(err, ms, rd) ==
    LET ok == ok_bands(err)
    IN  [k \in 1..Len(rd) |->
            RSum([j \in 1..Len(ok) |->
                     Quot(Sq(replic_fluxes_ok(err, rd, ok[j], k)
                             - noiseless_flux(ms, rd, ok[j], k)),
                          Sq(err[ok[j]]))])]

\* lines 478-479
p_value(obs, err, ms, rd) ==
    Quot(count_exceeding(joint_repl_discr(err, ms, rd), joint_obs_discr(obs, err, ms, rd)),
         n_replicated_of(rd))

\* lines 489-495: (mean of the replicated fluxes - observed flux) / error, all bands.
mean_residual(obs, err, rd) ==
    [i \in 1..n_bands_of(rd) |->
        Quot(SeqSum(replic_column(rd, i)) - Len(rd) * obs[i], Len(rd) * err[i])]

\* The residuals of the bands with a measurement only.
residual_fluxes_masked(obs, err, rd) ==
    LET ok == ok_bands(err)
    IN  [j \in 1..Len(ok) |->
            [k \in 1..Len(rd) |-> Quot(rd[k].flux[ok[j]] - obs[ok[j]], err[ok[j]])]]

\* lines 498-500: one row per band, one column per draw, all bands.
residual_fluxes(obs, err, rd) ==
    [i \in 1..n_bands_of(rd) |->
        [k \in 1..Len(rd) |-> Quot(rd[k].flux[i] - obs[i], err[i])]]

\* lines 584-587: the residuals of one displayed draw, all bands.
diff_fluxes(obs, err, rd, row) ==
    [i \in 1..n_bands_of(rd) |-> Quot(rd[row].flux[i] - obs[i], err[i])]

(***************************************************************************)
(* The kernel-density estimator at its call sites.                         *)
(***************************************************************************)
\* A sample is a sequence of quotients.
AllEqual(sample) == \A k \in DOMAIN sample : REq(sample[k], sample[1])

AllFinite(sample) == \A k \in DOMAIN sample : IsFinite(sample[k])

\* What prepare_violin_plot is given: a sample the estimator can fit ("ok"),
\* a zero-variance sample ("degenerate") or one holding inf or nan ("nonfinite").
sample_kind(sample) ==
    IF ~AllFinite(sample) THEN "nonfinite"
    ELSE IF AllEqual(sample) THEN "degenerate"
    ELSE "ok"

\* prepare_violin_plot(sample): "no_distribution" for a zero-variance sample,
\* a density otherwise.
prepare_violin_plot(sample) ==
    IF sample_kind(sample) = "degenerate" THEN "no_distribution" ELSE "density"

\* lines 618-623: the estimator is called on the residuals of every band in
\* turn and its result is unpacked into five values; nf_raises says whether
\* the estimator raises on a sample holding inf or nan.
kde_raises(sample, nf_raises) ==
    \/ prepare_violin_plot(sample) = "no_distribution"
    \/ sample_kind(sample) = "nonfinite" /\ nf_raises

\* The bands whose residuals reach the estimator in panel 0: all bands up to
\* and including the first one on which the call raises.
residual_kde_bands(res, nf_raises) ==
    LET bad == {j \in DOMAIN res : kde_raises(res[j], nf_raises)}
        stop == IF bad = {} THEN Len(res) ELSE SeqMin(SortedSeq(bad))
    IN  [j \in 1..stop |-> j]

(***************************************************************************)
(* numpy's global random generator.  The Mersenne Twister is abstracted by *)
(* a linear congruential generator over RngMod states: what matters is     *)
(* that a draw is a function of the generator's state alone.               *)
(***************************************************************************)
seed == 12345678

np_random_seed(s) == s % RngMod

rng_next(s) == (5 * s + 3) % RngMod

\* np.random.choice(n, size): size draws from range(n), with replacement
\* (replace=True is the default); row numbers are 1-based here.
RECURSIVE np_random_choice(_, _, _)
np_random_choice(n, size, s) ==
    IF size = 0 THEN <<>>
    ELSE <<(rng_next(s) % n) + 1>> \o np_random_choice(n, size - 1, rng_next(s))

RECURSIVE rng_after(_, _)
rng_after(size, s) == IF size = 0 THEN s ELSE rng_after(size - 1, rng_next(s))

\* lines 550-552
replic_data_rows(n, size, s) == np_random_choice(n, size, np_random_seed(seed))

(***************************************************************************)
(* Files.                                                                  *)
(***************************************************************************)
\* '<ID>_BANGS_<kind>.pdf'
plot_name(ID, kind) == <<ID, kind>>

\* splitext(name)[0] + now.strftime("-%Y%m%d-%H%M%S") + splitext(name)[1]
new_name(name, t) == <<name[1], name[2], t>>

\* plot_exists(name): presence of the file in the plot directory.
plot_exists(name, files) == name \in files

\* prepare_plot_saving(file_name), overwrite=False: creates the directory,
\* moves an existing file out of the way (os.rename replaces its target).
prepare_plot_saving(name, files, t) ==
    [dir |-> TRUE,
     files |-> IF name \in files
               THEN (files \ {name}) \cup {new_name(name, t)}
               ELSE files,
     renamed |-> name \in files,
     replaced |-> name \in files /\ new_name(name, t) \in files]

\* prepare_data_saving(file_name), overwrite=False: the same steps in the
\* data directory.
prepare_data_saving(name, files, t) ==
    [dir |-> TRUE,
     files |-> IF name \in files
               THEN (files \ {name}) \cup {new_name(name, t)}
               ELSE files,
     renamed |-> name \in files,
     replaced |-> name \in files /\ new_name(name, t) \in files]

\* fig.savefig(name)
savefig(name, files) == files \cup {name}

(***************************************************************************)
(* The optional annotations (print_text).                                  *)
(***************************************************************************)
\* A reference is <<"name", n>> (a local or global name) or <<"attr", a>>
\* (an attribute of self); evaluating it raises when it is not there.
ref_error(ref, bound, at) ==
    IF ref[1] = "name"
    THEN (IF ref[2] \in bound THEN "none" ELSE "NameError")
    ELSE (IF ref[2] \in at THEN "none" ELSE "AttributeError")

\* The first exception raised evaluating refs in order.
RECURSIVE first_error(_, _, _)
first_error(refs, bound, at) ==
    IF refs = <<>> THEN "none"
    ELSE IF ref_error(refs[1], bound, at) # "none" THEN ref_error(refs[1], bound, at)
    ELSE first_error(Tail(refs), bound, at)

\* lines 322 and 705: ax.text(x, y, ... self.logEvidence ...)
evidence_refs == << <<"name", "ax">>, <<"name", "x">>, <<"name", "y">>,
                    <<"attr", "logEvidence">> >>

\* lines 328-331, 337-345 and 711-714, 720-728:
\* extract_row(self.PPC.data, ID); y = y1 - (y1-y0)*...; ax.text(x, y, ...)
chi_square_refs == << <<"attr", "PPC.data">>, <<"name", "y1">>, <<"name", "y0">>,
                      <<"name", "ax">>, <<"name", "x">> >>

text_blocks == << [text |-> "logZ", refs |-> evidence_refs],
                  [text |-> "chi2", refs |-> chi_square_refs],
                  [text |-> "chi2_red", refs |-> chi_square_refs] >>

\* try: ... except AttributeError
caught(e) == e = "AttributeError"

\* The three try blocks in turn: the texts placed and the exception that
\* leaves the function, if any.
RECURSIVE annotate(_, _, _)
annotate(blocks, bound, at) ==
    IF blocks = <<>> THEN [texts |-> {}, exception |-> "none"]
    ELSE LET e == first_error(blocks[1].refs, bound, at)
             rest == annotate(Tail(blocks), bound, at)
         IN  IF e = "none"
             THEN [texts |-> {blocks[1].text} \cup rest.texts, exception |-> rest.exception]
             ELSE IF caught(e) THEN rest
             ELSE [texts |-> {}, exception |-> e]

\* Names bound when line 312 of plot_marginal is reached (lines 313-316).
marginal_bound == {"ax", "x0", "x1", "x", "y0", "y1", "y"}

\* Names bound when line 701 of plot_replicated_data is reached: lines
\* 696-699 are commented out.
replicated_bound == {"ax", "x0", "x1"}

(***************************************************************************)
(* ObservedCatalogue.extract_fluxes.  A catalogue row holds integer fluxes *)
(* and errors (aper_corr * filters.units / Jy taken as 1); min_rel_err is  *)
(* kept in tenths.  A returned error is sign * sqrt(sq), or nan.           *)
(***************************************************************************)
Sign(x) == IF x > 0 THEN 1 ELSE IF x < 0 THEN -1 ELSE 0

\* lines 95 and 97 not taken: the catalogue error as it is.
plain_err(e) == [kind |-> "finite", sign |-> Sign(e), sq |-> <<100 * Sq(e), 100>>]

\* lines 99-101: sqrt((flux_err/flux)**2 + min_rel_err**2) * flux.  The square
\* root is positive, so the product has the sign of flux; flux = 0 makes the
\* quotient inf and the product inf * 0 = nan.
quadrature_err(f, e, m10) ==
    IF f = 0 THEN [kind |-> "nan", sign |-> 0, sq |-> <<0, 0>>]
    ELSE [kind |-> "finite", sign |-> Sign(f),
          sq |-> <<100 * Sq(e) + Sq(m10) * Sq(f), 100>>]

\* lines 88-101, one band.
band_flux_err(f, e, m10) == IF e > 0 THEN quadrature_err(f, e, m10) ELSE plain_err(e)

\* lines 83-103
extract_fluxes_of(cat) ==
    [flux |-> [j \in DOMAIN cat.flux |-> cat.flux[j]],
     flux_err |-> [j \in DOMAIN cat.flux |->
                      band_flux_err(cat.flux[j], cat.flux_err[j], cat.min_rel_err[j])]]

\* flux_err[j] > 0 as numpy evaluates it: False for nan.
err_positive(r) == r.kind = "finite" /\ r.sign > 0 /\ r.sq[1] > 0

\* The returned error r is the number e.
err_equals(r, e) == r.kind = "finite" /\ r.sign = Sign(e) /\ r.sq[1] = Sq(e) * r.sq[2]

\* lines 170-172, 420-422: obs and err are the arrays extract_fluxes returns
\* for the catalogue row.
observed_from(cat, obs, err) ==
    /\ DOMAIN cat.flux = DOMAIN obs
    /\ \A j \in DOMAIN obs :
          /\ extract_fluxes_of(cat).flux[j] = obs[j]
          /\ err_equals(extract_fluxes_of(cat).flux_err[j], err[j])

\* A catalogue row without minimum relative error.
catalogue_row(flux, flux_err) ==
    [flux |-> flux, flux_err |-> flux_err, min_rel_err |-> [j \in DOMAIN flux |-> 0]]

(***************************************************************************)
(* Photometry.plot_replicated_data                                         *)
(***************************************************************************)
\* int(np.sqrt(n))
int_sqrt(n) == CHOOSE r \in 0..n : r * r <= n /\ (r + 1) * (r + 1) > n

\* lines 401-407: n_replic_to_plot is <<N>> or <<n_x, n_y>>.
n_plot_x(arg) == IF Len(arg) = 1 THEN int_sqrt(arg[1]) ELSE arg[1]

n_plot_y(arg) == IF Len(arg) = 1 THEN n_plot_x(arg) ELSE arg[2]

\* lines 396-399
replicated_skips(ID, replot, files) ==
    plot_exists(plot_name(ID, "replic_data_phot"), files) /\ ~replot

\* A call that returned at line 157 or 399.
early_return(op, ID, args) ==
    [op |-> op, ID |-> ID, args |-> args, existed |-> TRUE, returned_early |-> TRUE,
     effects |-> <<>>, exception |-> "none", saved |-> FALSE]

\* A call that an exception left before the figure was drawn.
failed_call(op, ID, args, existed, effects, exception) ==
    [op |-> op, ID |-> ID, args |-> args, existed |-> existed, returned_early |-> FALSE,
     effects |-> effects, exception |-> exception, saved |-> FALSE]

\* lines 411, 430, 438: the first required input of the object that is not
\* there, in the order the code asks for them.
replicated_missing(ID) ==
    IF <<"row", ID>> \notin present THEN "row"
    ELSE IF <<"posterior", ID>> \notin present THEN "posterior"
    ELSE IF <<"replicated", ID>> \notin present THEN "replicated"
    ELSE "none"

\* lines 411-438 when an input is missing: what was done before the exception.
replicated_failure(ID, args) ==
    LET existed == plot_exists(plot_name(ID, "replic_data_phot"), fs)
        op == "plot_replicated_data"
    IN  CASE replicated_missing(ID) = "row" ->
                 failed_call(op, ID, args, existed, <<"extract_row">>, "MissingRow")
          [] replicated_missing(ID) = "posterior" ->
                 failed_call(op, ID, args, existed,
                             <<"extract_row", "extract_fluxes">>, "IOError")
          [] OTHER ->
                 failed_call(op, ID, args, existed,
                             <<"extract_row", "extract_fluxes", "open_model_hdu">>, "IOError")

\* lines 430-438: the handle left open when the replicated archive is missing.
replicated_failure_open(ID) ==
    IF replicated_missing(ID) = "replicated" THEN {<<"model_hdu", ID>>} ELSE {}

\* lines 506-508: with 'sns' in sys.modules the branch is entered and the name
\* sns, which no import of the module binds (line 11), is evaluated.
heatmap_exception == IF "sns" \in modules THEN "NameError" ELSE "none"

\* lines 557-623: the exception the estimator calls of panel 0 end in, if any.
replicated_kde_exception(arg, nf_raises) ==
    LET res == residual_fluxes(obs_flux, obs_flux_err, replic_data)
        kde_bands == residual_kde_bands(res, nf_raises)
        last_sample == res[kde_bands[Len(kde_bands)]]
    IN  IF n_plot_x(arg) * n_plot_y(arg) = 0 \/ ~kde_raises(last_sample, nf_raises)
        THEN "none"
        ELSE IF sample_kind(last_sample) = "degenerate" THEN "EstimatorError"
        ELSE "NonFiniteError"

\* lines 701-731: the annotations, reached when nothing was raised before.
replicated_notes(arg, print_text, nf_raises) ==
    IF /\ print_text
       /\ heatmap_exception = "none"
       /\ replicated_kde_exception(arg, nf_raises) = "none"
    THEN annotate(text_blocks, replicated_bound, attrs)
    ELSE [texts |-> {}, exception |-> "none"]

\* The exception that leaves plot_replicated_data, or "none".
replicated_exception(arg, print_text, nf_raises) ==
    IF heatmap_exception # "none" THEN heatmap_exception
    ELSE IF replicated_kde_exception(arg, nf_raises) # "none"
    THEN replicated_kde_exception(arg, nf_raises)
    ELSE replicated_notes(arg, print_text, nf_raises).exception

\* lines 401-745, for a call that passed line 399.
replicated_result(ID, arg, print_text, replot, nf_raises) ==
    LET obs == obs_flux
        err == obs_flux_err
        rd == replic_data
        n_panels == n_plot_x(arg) * n_plot_y(arg)
        drawn == heatmap_exception = "none"
        rows == IF drawn THEN replic_data_rows(n_replicated_of(rd), n_panels, rng) ELSE <<>>
        res == residual_fluxes(obs, err, rd)
        kde_bands == IF drawn /\ n_panels > 0 THEN residual_kde_bands(res, nf_raises)
                     ELSE <<>>
        notes == replicated_notes(arg, print_text, nf_raises)
        exc == replicated_exception(arg, print_text, nf_raises)
    IN  [op |-> "plot_replicated_data", ID |-> ID,
         args |-> [n_replic_to_plot |-> arg, print_text |-> print_text, replot |-> replot],
         existed |-> plot_exists(plot_name(ID, "replic_data_phot"), fs),
         returned_early |-> FALSE,
         n_panels |-> n_panels,
         effects |-> <<"extract_row", "extract_fluxes", "open_model_hdu", "open_replic_hdu",
                       "cov">>
                     \o (IF drawn THEN <<"seed", "choice", "figure">> ELSE <<>>)
                     \o [j \in 1..Len(kde_bands) |-> "prepare_violin_plot"]
                     \o (IF exc = "none"
                         THEN <<"prepare_plot_saving", "savefig", "close_figure",
                                "close_model_hdu", "close_replic_hdu">>
                         ELSE <<>>),
         n_replicated |-> n_replicated_of(rd),
         ok_bands |-> ok_bands(err),
         obs_discr_bands |-> [i \in 1..n_bands_of(rd) |->
                                 IF err[i] > 0 THEN band_obs_discr(obs, err, model_sed, rd, i)
                                 ELSE <<>>],
         repl_discr_bands |-> [i \in 1..n_bands_of(rd) |->
                                 IF err[i] > 0 THEN band_repl_discr(err, model_sed, rd, i)
                                 ELSE <<>>],
         p_value_bands |-> p_value_bands(obs, err, model_sed, rd),
         obs_discr |-> joint_obs_discr(obs, err, model_sed, rd),
         repl_discr |-> joint_repl_discr(err, model_sed, rd),
         p_value |-> p_value(obs, err, model_sed, rd),
         mean_residual |-> mean_residual(obs, err, rd),
         residual_fluxes |-> res,
         replic_data_rows |-> rows,
         diff_fluxes |-> [p \in 1..Len(rows) |-> diff_fluxes(obs, err, rd, rows[p])],
         kde_samples |-> [j \in 1..Len(kde_bands) |-> res[kde_bands[j]]],
         texts |-> notes.texts,
         exception |-> exc,
         saved |-> exc = "none"]

\* What a call that an exception leaves at line 508, 623 or 705 keeps open:
\* nothing closes the handles of lines 430 and 438 and the figure of line 557.
replicated_left_open(ID, arg, print_text, nf_raises) ==
    IF replicated_exception(arg, print_text, nf_raises) = "none" THEN {}
    ELSE IF heatmap_exception # "none" THEN {<<"model_hdu", ID>>, <<"replic_hdu", ID>>}
    ELSE {<<"model_hdu", ID>>, <<"replic_hdu", ID>>, <<"figure", ID>>}

plot_replicated_data(ID, arg, print_text, replot, nf_raises) ==
    LET args == [n_replic_to_plot |-> arg, print_text |-> print_text, replot |-> replot]
    IN
    /\ nf_raises => \E i \in DOMAIN obs_flux_err : obs_flux_err[i] = 0
    /\ IF replicated_skips(ID, replot, fs)
       THEN /\ ~nf_raises
            /\ last' = early_return("plot_replicated_data", ID, args)
            /\ UNCHANGED <<fs, plot_dir, rng, open>>
       ELSE IF replicated_missing(ID) # "none"
       THEN /\ ~nf_raises
            /\ last' = replicated_failure(ID, args)
            /\ open' = open \cup replicated_failure_open(ID)
            /\ UNCHANGED <<fs, plot_dir, rng>>
       ELSE LET name == plot_name(ID, "replic_data_phot")
                prep == prepare_plot_saving(name, fs, now)
            IN  /\ heatmap_exception # "none" => ~nf_raises
                /\ last' = replicated_result(ID, arg, print_text, replot, nf_raises)
                /\ rng' = IF heatmap_exception = "none"
                          THEN rng_after(n_plot_x(arg) * n_plot_y(arg), np_random_seed(seed))
                          ELSE rng
                /\ open' = open \cup replicated_left_open(ID, arg, print_text, nf_raises)
                /\ IF replicated_exception(arg, print_text, nf_raises) = "none"
                   THEN /\ fs' = savefig(name, prep.files)
                        /\ plot_dir' = prep.dir
                   ELSE UNCHANGED <<fs, plot_dir>>
    /\ UNCHANGED <<data_vars, now, store_vars>>

(***************************************************************************)
(* Photometry.plot_marginal                                                *)
(***************************************************************************)
\* lines 208-212
min_flux(ms, i) == SeqMin(ms[i])

max_flux(ms, i) == SeqMax(ms[i])

\* lines 218-224 with the test of line 218 left out: every band gets a density.
has_pdf_always(ms, i) == TRUE

\* lines 218-224
has_pdf(ms, i) == min_flux(ms, i) # max_flux(ms, i)

\* The positions K of the sample x in increasing order of value (np.argsort).
RECURSIVE value_order(_, _)
value_order(x, K) ==
    IF K = {} THEN <<>>
    ELSE LET k == CHOOSE a \in K : \A b \in K : x[a] < x[b] \/ (x[a] = x[b] /\ a <= b)
         IN  <<k>> \o value_order(x, K \ {k})

\* The middle value of the sorted sample, whatever the weights.
unweighted_median(x, w) == x[value_order(x, DOMAIN x)[(Len(x) + 1) \div 2]]

\* The weighted median prepare_violin_plot returns: the sample is sorted, the
\* weights are accumulated in that order, and the median is the first value at
\* which the cumulative weight reaches half of the total.
weighted_median(x, w) ==
    LET order == value_order(x, DOMAIN x)
        cum(n) == SeqSum([j \in 1..n |-> w[order[j]]])
        first == CHOOSE n \in 1..Len(x) :
                     /\ 2 * cum(n) >= SeqSum(w)
                     /\ \A m \in 1..(n - 1) : 2 * cum(m) < SeqSum(w)
    IN  x[order[first]]

\* lines 220 and 227
median_flux(ms, w, i) ==
    IF has_pdf(ms, i) THEN weighted_median(ms[i], w) ELSE min_flux(ms, i)

\* lines 231-232, bands numbered from 1: the spacing to the previous band,
\* and for the first band the spacing to the second.
delta_wl(wl, b) == IF b = 1 THEN wl[2] - wl[1] ELSE wl[b] - wl[b - 1]

\* lines 236-238: for i > 1 (0-based) the slice delta_wl[i-1:i] holds the one
\* element delta_wl[i-1].
dwl(wl, b) == IF b > 2 THEN delta_wl(wl, b - 1) ELSE delta_wl(wl, b)

\* lines 242-251: the largest half-width of the violin of band b, in tenths
\* of a wavelength unit: max(y_plot * w) = 0.4 * dwl.
half_width10(wl, b) == 4 * dwl(wl, b)

\* line 269
yMax(obs, err, ms) == SeqMax([i \in DOMAIN ms |-> max_flux(ms, i)])

\* line 270
yMin(obs, err, ms) ==
    SeqMin([j \in 1..Len(ok_bands(err)) |-> obs[ok_bands(err)[j]] - err[ok_bands(err)[j]]]
           \o [i \in DOMAIN ms |-> min_flux(ms, i)])

\* lines 272-277, in tenths of a flux unit.
ylim10(obs, err, ms) ==
    LET dY == yMax(obs, err, ms) - yMin(obs, err, ms)
    IN  [lo |-> 10 * yMin(obs, err, ms) - dY, hi |-> 10 * yMax(obs, err, ms) + dY]

\* lines 152-157 testing for the wrong artifact name.
marginal_skips_other_name(ID, replot, show, files) ==
    plot_exists(plot_name(ID, "replic_data_phot"), files) /\ ~replot /\ ~show

\* lines 154-157
marginal_skips(ID, replot, show, files) ==
    plot_exists(plot_name(ID, "marginal_SED_phot"), files) /\ ~replot /\ ~show

\* lines 318-348: the annotations.
marginal_notes(print_text) ==
    IF print_text THEN annotate(text_blocks, marginal_bound, attrs)
    ELSE [texts |-> {}, exception |-> "none"]

\* The exception that leaves plot_marginal, or "none".
marginal_exception(print_text) == marginal_notes(print_text).exception

\* lines 159-363, for a call that passed line 157.
marginal_result(ID, print_text, print_title, replot, show) ==
    LET obs == obs_flux
        err == obs_flux_err
        ms == model_sed
        bands == 1..Len(ms)
        pdf_bands == SortedSeq({i \in bands : has_pdf(ms, i)})
        notes == marginal_notes(print_text)
    IN  [op |-> "plot_marginal", ID |-> ID,
         args |-> [print_text |-> print_text, print_title |-> print_title,
                   replot |-> replot, show |-> show],
         existed |-> plot_exists(plot_name(ID, "marginal_SED_phot"), fs),
         returned_early |-> FALSE,
         effects |-> <<"extract_row", "extract_fluxes", "figure", "open_hdulist">>
                     \o [j \in 1..Len(pdf_bands) |-> "prepare_violin_plot"]
                     \o (IF notes.exception # "none" THEN <<>>
                         ELSE IF show THEN <<"show", "close_figure", "close_hdulist">>
                         ELSE <<"prepare_plot_saving", "savefig", "close_figure",
                                "close_hdulist">>),
         has_pdf |-> [i \in bands |-> has_pdf(ms, i)],
         min_flux |-> [i \in bands |-> min_flux(ms, i)],
         max_flux |-> [i \in bands |-> max_flux(ms, i)],
         median_flux |-> [i \in bands |-> median_flux(ms, probability, i)],
         kde_bands |-> pdf_bands,
         kde_samples |-> [j \in 1..Len(pdf_bands) |->
                             [k \in DOMAIN ms[pdf_bands[j]] |-> Quot(ms[pdf_bands[j]][k], 1)]],
         violins |-> {i \in bands : has_pdf(ms, i)},
         half_width10 |-> [i \in bands |-> IF has_pdf(ms, i) THEN half_width10(wl_eff, i) ELSE 0],
         markers |-> [i \in bands |-> <<wl_eff[i], median_flux(ms, probability, i)>>],
         ylim10 |-> ylim10(obs, err, ms),
         texts |-> notes.texts,
         exception |-> notes.exception,
         saved |-> notes.exception = "none" /\ ~show]

\* lines 161, 181: the first required input of the object that is not there.
marginal_missing(ID) ==
    IF <<"row", ID>> \notin present THEN "row"
    ELSE IF <<"posterior", ID>> \notin present THEN "posterior"
    ELSE "none"

\* lines 161-181 when an input is missing: the figure of line 176 is created
\* before the archive is opened at line 181.
marginal_failure(ID, args) ==
    LET existed == plot_exists(plot_name(ID, "marginal_SED_phot"), fs)
    IN  IF marginal_missing(ID) = "row"
        THEN failed_call("plot_marginal", ID, args, existed, <<"extract_row">>, "MissingRow")
        ELSE failed_call("plot_marginal", ID, args, existed,
                         <<"extract_row", "extract_fluxes", "figure">>, "IOError")

\* lines 176-181: the figure left open when the archive is missing.
marginal_failure_open(ID) ==
    IF marginal_missing(ID) = "posterior" THEN {<<"figure", ID>>} ELSE {}

\* What a call that an exception leaves after line 181 keeps open: nothing
\* closes the figure of line 176 and the archive of line 181.
marginal_left_open(ID, print_text) ==
    IF marginal_exception(print_text) = "none" THEN {}
    ELSE {<<"figure", ID>>, <<"hdulist", ID>>}

plot_marginal(ID, print_text, print_title, replot, show) ==
    LET args == [print_text |-> print_text, print_title |-> print_title,
                 replot |-> replot, show |-> show]
    IN
    /\ IF marginal_skips(ID, replot, show, fs)
       THEN /\ last' = early_return("plot_marginal", ID, args)
            /\ UNCHANGED <<fs, plot_dir, open>>
       ELSE IF marginal_missing(ID) # "none"
       THEN /\ last' = marginal_failure(ID, args)
            /\ open' = open \cup marginal_failure_open(ID)
            /\ UNCHANGED <<fs, plot_dir>>
       ELSE LET name == plot_name(ID, "marginal_SED_phot")
                prep == prepare_plot_saving(name, fs, now)
            IN  /\ last' = marginal_result(ID, print_text, print_title, replot, show)
                /\ open' = open \cup marginal_left_open(ID, print_text)
                /\ IF marginal_exception(print_text) = "none" /\ ~show
                   THEN /\ fs' = savefig(name, prep.files)
                        /\ plot_dir' = prep.dir
                   ELSE UNCHANGED <<fs, plot_dir>>
    /\ UNCHANGED <<data_vars, now, rng, store_vars>>

(***************************************************************************)
(* The environment.                                                        *)
(***************************************************************************)
\* A second passes.
Tick ==
    /\ now < MaxTime
    /\ now' = now + 1
    /\ UNCHANGED <<data_vars, fs, plot_dir, rng, last, open, store_vars>>

\* Other code draws from numpy's global generator.
OtherRandomUse ==
    /\ rng' = rng_next(rng)
    /\ UNCHANGED <<data_vars, fs, plot_dir, now, last, open, store_vars>>

(***************************************************************************)
(* Inputs.                                                                 *)
(***************************************************************************)
Fluxes == 0..MaxFlux

Errors == 0..MaxErr

NoCall == [op |-> "none", ID |-> 0, args |-> <<>>, existed |-> FALSE,
           returned_early |-> FALSE, effects |-> <<>>, exception |-> "none", saved |-> FALSE]

\* Every required input of every object.
AllInputs == {"row", "posterior", "replicated"} \X IDs

\* Bands, posterior samples and numbers of draws of the predictive check.
PPCBands == 1..2

PPCSamples == 1..2

PPCDraws == 1..2

TypeOK == /\ fs \subseteq (IDs \X {"marginal_SED_phot", "replic_data_phot"})
                 \cup (IDs \X {"marginal_SED_phot", "replic_data_phot"} \X (0..MaxTime))
          /\ plot_dir \in BOOLEAN
          /\ now \in 0..MaxTime
          /\ rng \in 0..(RngMod - 1)

\* Names sys.modules may hold: the heatmap library and the alias the code tests.
OptionalModules == {"seaborn", "sns"}

InitPPC ==
    /\ wl_eff = [i \in PPCBands |-> i]
    /\ obs_flux \in [PPCBands -> Fluxes]
    /\ obs_flux_err \in [PPCBands -> Errors]
    /\ model_sed = [i \in PPCBands |-> [s \in PPCSamples |-> (s + i) % 2]]
    /\ probability = [s \in PPCSamples |-> 1]
    /\ \E n \in PPCDraws :
          replic_data \in [1..n -> [row_index : PPCSamples, flux : [PPCBands -> Fluxes]]]
    /\ attrs = {}
    /\ fs = {}
    /\ plot_dir = FALSE
    /\ now = 0
    /\ rng = 0
    /\ last = NoCall
    /\ catalogue = catalogue_row(obs_flux, obs_flux_err)
    /\ observed_from(catalogue, obs_flux, obs_flux_err)
    /\ present = AllInputs
    /\ modules \in {{}, OptionalModules}
    /\ open = {}
    /\ data_fs = {}
    /\ data_dir = FALSE

NextPPC ==
    \E nf_raises \in BOOLEAN :
        plot_replicated_data(1, <<1>>, FALSE, FALSE, nf_raises)

SpecPPC == InitPPC /\ [][NextPPC]_vars

\* Increasing wavelengths of three bands, by the two spacings.
Wavelengths3 == {<<1, 1 + g1, 1 + g1 + g2>> : g1 \in 1..MaxGap, g2 \in 1..MaxGap}

\* The marginal plot over its data: three bands with every spacing and every
\* mix of constant and spread posterior fluxes, or two bands with every
\* observed flux and error.
InitMarg ==
    /\ \/ /\ wl_eff \in Wavelengths3
          /\ model_sed \in [1..3 -> [1..2 -> Fluxes]]
          /\ obs_flux = <<1, 1, 1>>
          /\ obs_flux_err = <<1, 1, 1>>
       \/ /\ wl_eff = <<1, 2>>
          /\ model_sed \in [1..2 -> [1..2 -> Fluxes]]
          /\ obs_flux \in [1..2 -> Fluxes]
          /\ obs_flux_err \in [1..2 -> Errors]
    /\ probability = <<1, 1>>
    /\ replic_data = <<>>
    /\ attrs = {}
    /\ fs = {}
    /\ plot_dir = FALSE
    /\ now = 0
    /\ rng = 0
    /\ last = NoCall
    /\ catalogue = catalogue_row(obs_flux, obs_flux_err)
    /\ observed_from(catalogue, obs_flux, obs_flux_err)
    /\ present = AllInputs
    /\ modules = {}
    /\ open = {}
    /\ data_fs = {}
    /\ data_dir = FALSE

NextMarg == plot_marginal(1, FALSE, FALSE, FALSE, FALSE)

SpecMarg == InitMarg /\ [][NextMarg]_vars

\* The optional statistics an object may carry.
Statistics == {"logEvidence", "PPC.data"}

\* Calls of plot_marginal over one catalogue: a band with a spread posterior
\* and an unmeasured band with a constant one.
Init ==
    /\ wl_eff = <<1, 2>>
    /\ obs_flux = <<1, 1>>
    /\ obs_flux_err = <<1, 0>>
    /\ model_sed = <<<<0, 1>>, <<0, 0>>>>
    /\ probability = <<1, 1>>
    /\ replic_data = <<>>
    /\ attrs \in SUBSET Statistics
    /\ fs = {}
    /\ plot_dir = FALSE
    /\ now = 0
    /\ rng = 0
    /\ last = NoCall
    /\ catalogue = catalogue_row(obs_flux, obs_flux_err)
    /\ observed_from(catalogue, obs_flux, obs_flux_err)
    /\ present = AllInputs
    /\ modules = {}
    /\ open = {}
    /\ data_fs = {}
    /\ data_dir = FALSE

Next ==
    \/ \E ID \in IDs, print_text, print_title, replot, show \in BOOLEAN :
           plot_marginal(ID, print_text, print_title, replot, show)
    \/ Tick

Spec == Init /\ [][Next]_vars

\* n_replic_to_plot: a single number or a pair.
GridArgs == {<<3>>, <<2, 2>>}

\* Calls of plot_replicated_data over one catalogue, with and without an
\* unmeasured band, with and without the optional statistics.
InitRepl ==
    /\ wl_eff = <<1, 2>>
    /\ obs_flux = <<1, 1>>
    /\ obs_flux_err \in {<<1, 1>>, <<1, 0>>}
    /\ model_sed = <<<<0, 1>>, <<1, 0>>>>
    /\ probability = <<1, 1>>
    /\ replic_data = <<[row_index |-> 1, flux |-> <<0, 1>>],
                       [row_index |-> 2, flux |-> <<1, 0>>]>>
    /\ attrs \in {{}, Statistics}
    /\ fs = {}
    /\ plot_dir = FALSE
    /\ now = 0
    /\ rng = 0
    /\ last = NoCall
    /\ catalogue = catalogue_row(obs_flux, obs_flux_err)
    /\ observed_from(catalogue, obs_flux, obs_flux_err)
    /\ present = AllInputs
    /\ modules = {}
    /\ open = {}
    /\ data_fs = {}
    /\ data_dir = FALSE

NextRepl ==
    \/ \E arg \in GridArgs, print_text, replot, nf_raises \in BOOLEAN :
           plot_replicated_data(1, arg, print_text, replot, nf_raises)
    \/ Tick
    \/ OtherRandomUse

SpecRepl == InitRepl /\ [][NextRepl]_vars

(***************************************************************************)
(* Claims about the posterior-predictive check (SpecPPC).                  *)
(***************************************************************************)
Replicated == last.op = "plot_replicated_data" /\ ~last.returned_early

\* The two discrepancies of band b in draw d, without their common divisor.
repl_sq(b, d) == Sq(replic_data[d].flux[b] - model_sed[b][replic_data[d].row_index])

obs_sq(b, d) == Sq(obs_flux[b] - model_sed[b][replic_data[d].row_index])

Draws == 1..Len(replic_data)

\* C2: for every band with observed error > 0 the p-value is the number of
\* draws whose replicated discrepancy is strictly greater than the observed
\* one, divided by the number of draws; ties are not counted, so the p-value
\* is 0 when replicated, observed and noiseless fluxes all coincide.
C2_BandPValue ==
    Replicated =>
        \A b \in DOMAIN obs_flux_err :
            obs_flux_err[b] > 0 =>
                /\ last.p_value_bands[b] =
                       <<Cardinality({d \in Draws :
                             repl_sq(b, d) * Sq(obs_flux_err[b])
                                 > obs_sq(b, d) * Sq(obs_flux_err[b])}),
                         Len(replic_data)>>
                /\ (\A d \in Draws : repl_sq(b, d) = 0 /\ obs_sq(b, d) = 0)
                       => last.p_value_bands[b][1] = 0

\* C2 witness: a measured band with one draw that ties and one that exceeds.
C2_Witness ==
    /\ Replicated
    /\ \E b \in DOMAIN obs_flux_err :
          /\ obs_flux_err[b] > 0
          /\ \E d \in Draws : repl_sq(b, d) = obs_sq(b, d)
          /\ \E d \in Draws : repl_sq(b, d) > obs_sq(b, d)
          /\ last.p_value_bands[b] = <<1, 2>>

\* The input with band z taken out.
keep_bands(z) == SortedSeq(DOMAIN obs_flux_err \ {z})

without_band(f, z) == [j \in 1..Len(keep_bands(z)) |-> f[keep_bands(z)[j]]]

replic_without_band(z) ==
    [d \in Draws |-> [row_index |-> replic_data[d].row_index,
                      flux |-> without_band(replic_data[d].flux, z)]]

measured_bands == SortedSeq({b \in DOMAIN obs_flux_err : obs_flux_err[b] > 0})

\* C3: the joint observed and replicated discrepancies of each draw are the
\* sums of the per-band discrepancies over exactly the bands with observed
\* error > 0, and taking a band with error 0 out of the input changes neither
\* joint discrepancy nor the joint p-value.
C3_JointDiscrepancy ==
    Replicated =>
        /\ \A d \in Draws :
              /\ last.obs_discr[d] =
                     RSum([j \in 1..Len(measured_bands) |->
                              last.obs_discr_bands[measured_bands[j]][d]])
              /\ last.repl_discr[d] =
                     RSum([j \in 1..Len(measured_bands) |->
                              last.repl_discr_bands[measured_bands[j]][d]])
        /\ \A z \in DOMAIN obs_flux_err :
              obs_flux_err[z] = 0 =>
                  /\ joint_obs_discr(without_band(obs_flux, z), without_band(obs_flux_err, z),
                                     without_band(model_sed, z), replic_without_band(z))
                         = last.obs_discr
                  /\ joint_repl_discr(without_band(obs_flux_err, z),
                                      without_band(model_sed, z), replic_without_band(z))
                         = last.repl_discr
                  /\ p_value(without_band(obs_flux, z), without_band(obs_flux_err, z),
                             without_band(model_sed, z), replic_without_band(z))
                         = last.p_value

\* C3 witness: one band measured, one not, the unmeasured band's replicated
\* flux away from the model, and a positive joint p-value.
C3_Witness ==
    /\ Replicated
    /\ \E z, b \in DOMAIN obs_flux_err :
          /\ obs_flux_err[z] = 0
          /\ obs_flux_err[b] > 0
          /\ \E d \in Draws : repl_sq(z, d) > 0
    /\ last.p_value[1] > 0

\* C4: no quotient of plot_replicated_data has a zero observed error as its
\* divisor: per-band and joint discrepancies, mean residual, residual matrix
\* and the residuals of the displayed draws are all finite.
C4_NoZeroDivisor ==
    Replicated =>
        /\ \A b \in DOMAIN last.obs_discr_bands : \A d \in DOMAIN last.obs_discr_bands[b] :
              IsFinite(last.obs_discr_bands[b][d]) /\ IsFinite(last.repl_discr_bands[b][d])
        /\ \A d \in Draws : IsFinite(last.obs_discr[d]) /\ IsFinite(last.repl_discr[d])
        /\ \A b \in DOMAIN last.mean_residual : IsFinite(last.mean_residual[b])
        /\ \A b \in DOMAIN last.residual_fluxes : \A d \in Draws :
              IsFinite(last.residual_fluxes[b][d])
        /\ \A p \in DOMAIN last.diff_fluxes : \A b \in DOMAIN last.diff_fluxes[p] :
              IsFinite(last.diff_fluxes[p][b])

\* C6: at every call site of prepare_violin_plot a zero-variance sample is
\* kept from the estimator by a branch, and no exception results from one.
C6_NoDegenerateSample ==
    (last.op \in {"plot_marginal", "plot_replicated_data"} /\ ~last.returned_early) =>
        /\ \A j \in DOMAIN last.kde_samples : sample_kind(last.kde_samples[j]) # "degenerate"
        /\ last.exception # "EstimatorError"

(***************************************************************************)
(* Claims about plot_marginal.                                             *)
(***************************************************************************)
Marginal == last.op = "plot_marginal"

MarginalDone == Marginal /\ ~last.returned_early

\* C1, as claimed: a call of plot_marginal with replot=False for an ID whose
\* artifact exists does nothing, whatever the other arguments (show
\* included): nothing is read or computed and no file changes.
C1_NoOpForEveryShow ==
    (Marginal /\ last.existed /\ ~last.args.replot) =>
        last.returned_early /\ last.effects = <<>>

\* C1, amended: a call of plot_marginal with replot=False for an ID whose
\* artifact exists creates, renames and overwrites no file; with show=False
\* it also reads and computes nothing; with show=True it does read and
\* compute, to show the plot.
C1_NoOpUnlessShow ==
    [][(last'.op = "plot_marginal" /\ last'.existed /\ ~last'.args.replot) =>
          /\ fs' = fs
          /\ plot_dir' = plot_dir
          /\ ~last'.args.show => (last'.returned_early /\ last'.effects = <<>>)
          /\ last'.args.show => (~last'.returned_early /\ ~last'.saved)]_vars

\* C1 witness: a call with replot=False and show=False found the artifact of
\* an earlier call and returned at once.
C1_Witness ==
    /\ Marginal
    /\ last.existed /\ ~last.args.replot /\ ~last.args.show
    /\ last.returned_early
    /\ plot_name(last.ID, "marginal_SED_phot") \in fs

Constant(b) == \A k \in DOMAIN model_sed[b] : model_sed[b][k] = model_sed[b][1]

\* C5: a band whose posterior draws are all equal has no distribution, its
\* median flux is that constant, the estimator is not called for it, no
\* violin is drawn and the point marker sits at the constant flux.
C5_DegenerateBand ==
    MarginalDone =>
        /\ \A b \in DOMAIN model_sed :
              Constant(b) =>
                  /\ ~last.has_pdf[b]
                  /\ last.median_flux[b] = model_sed[b][1]
                  /\ \A j \in DOMAIN last.kde_bands : last.kde_bands[j] # b
                  /\ b \notin last.violins
                  /\ last.half_width10[b] = 0
                  /\ last.markers[b] = <<wl_eff[b], model_sed[b][1]>>
        /\ Cardinality({j \in DOMAIN last.effects : last.effects[j] = "prepare_violin_plot"})
               = Cardinality({b \in DOMAIN model_sed : ~Constant(b)})

\* C5 witness: a plot with a constant band beside a spread one.
C5_Witness ==
    /\ MarginalDone
    /\ \E b, c \in DOMAIN model_sed :
          Constant(b) /\ model_sed[b][1] > 0 /\ ~Constant(c) /\ c \in last.violins

min_spacing ==
    SeqMin([b \in 1..(Len(wl_eff) - 1) |-> wl_eff[b + 1] - wl_eff[b]])

\* C7: the largest half-width of every violin is 40% of the minimum spacing
\* between consecutive effective wavelengths, so the violins of adjacent
\* bands do not overlap.
C7_ViolinWidth ==
    MarginalDone =>
        /\ \A b \in last.violins : last.half_width10[b] = 4 * min_spacing
        /\ \A b \in 1..(Len(wl_eff) - 1) :
              (b \in last.violins /\ b + 1 \in last.violins) =>
                  10 * wl_eff[b] + last.half_width10[b]
                      <= 10 * wl_eff[b + 1] - last.half_width10[b + 1]

measured == {b \in DOMAIN obs_flux_err : obs_flux_err[b] > 0}

\* The union of the observed and predicted flux ranges.
union_lo ==
    CHOOSE v \in {obs_flux[b] - obs_flux_err[b] : b \in measured}
                 \cup {model_sed[b][k] : b \in DOMAIN model_sed, k \in 1..2} :
        /\ \A b \in measured : v <= obs_flux[b] - obs_flux_err[b]
        /\ \A b \in DOMAIN model_sed : \A k \in DOMAIN model_sed[b] : v <= model_sed[b][k]

union_hi ==
    CHOOSE v \in {obs_flux[b] + obs_flux_err[b] : b \in measured}
                 \cup {model_sed[b][k] : b \in DOMAIN model_sed, k \in 1..2} :
        /\ \A b \in measured : v >= obs_flux[b] + obs_flux_err[b]
        /\ \A b \in DOMAIN model_sed : \A k \in DOMAIN model_sed[b] : v >= model_sed[b][k]

\* C8: the y-axis limits contain the union of the observed range (flux minus
\* and plus error over the measured bands) and the predicted range, extended
\* on each side by 10% of the union's extent.
C8_AxisLimits ==
    MarginalDone =>
        /\ last.ylim10.lo <= 10 * union_lo - (union_hi - union_lo)
        /\ last.ylim10.hi >= 10 * union_hi + (union_hi - union_lo)

(***************************************************************************)
(* Claims about plot_replicated_data (SpecRepl).                           *)
(***************************************************************************)
NoDuplicates(rows) == \A p, q \in DOMAIN rows : p # q => rows[p] # rows[q]

\* C9: the draws displayed are selected deterministically (the same number
\* of draws and grid size give the same indices whatever the generator was
\* used for before), there are n_x * n_y of them, each a draw of the table,
\* and no draw is selected twice.
C9_DeterministicSubset ==
    Replicated =>
        /\ last.replic_data_rows
               = np_random_choice(Len(replic_data), last.n_panels, np_random_seed(seed))
        /\ Len(last.replic_data_rows) = n_plot_x(last.args.n_replic_to_plot)
                                            * n_plot_y(last.args.n_replic_to_plot)
        /\ \A p \in DOMAIN last.replic_data_rows : last.replic_data_rows[p] \in Draws
        /\ NoDuplicates(last.replic_data_rows)

\* C10: with print_text=True and the optional statistics missing the
\* annotation is left out, no exception leaves the call and the artifact is
\* written.
C10_MissingStatistics ==
    (/\ last.op \in {"plot_marginal", "plot_replicated_data"}
     /\ ~last.returned_early
     /\ last.args.print_text
     /\ attrs \cap Statistics = {}
     /\ last.exception \notin {"EstimatorError", "NonFiniteError"}) =>
        /\ last.exception = "none"
        /\ last.texts = {}
        /\ (last.op = "plot_replicated_data" \/ ~last.args.show) =>
              /\ last.saved
              /\ plot_name(last.ID, IF last.op = "plot_marginal" THEN "marginal_SED_phot"
                                    ELSE "replic_data_phot") \in fs

(***************************************************************************)
(* Objects with missing inputs (SpecIso).                                  *)
(***************************************************************************)
\* A catalogue of two objects, either of which may lack its row, its
\* posterior archive or its replicated-data archive.
InitIso ==
    /\ wl_eff = <<1, 2>>
    /\ obs_flux = <<1, 1>>
    /\ obs_flux_err = <<1, 1>>
    /\ model_sed = <<<<0, 1>>, <<1, 0>>>>
    /\ probability = <<1, 1>>
    /\ replic_data = <<[row_index |-> 1, flux |-> <<0, 1>>],
                       [row_index |-> 2, flux |-> <<1, 0>>]>>
    /\ attrs = {}
    /\ fs = {}
    /\ plot_dir = FALSE
    /\ now = 0
    /\ rng = 0
    /\ last = NoCall
    /\ catalogue = catalogue_row(obs_flux, obs_flux_err)
    /\ observed_from(catalogue, obs_flux, obs_flux_err)
    /\ present \in SUBSET AllInputs
    /\ modules = {}
    /\ open = {}
    /\ data_fs = {}
    /\ data_dir = FALSE

NextIso ==
    \/ \E ID \in IDs, replot \in BOOLEAN : plot_marginal(ID, FALSE, FALSE, replot, FALSE)
    \/ \E ID \in IDs, replot \in BOOLEAN :
           plot_replicated_data(ID, <<1>>, FALSE, replot, FALSE)
    \/ Tick

SpecIso == InitIso /\ [][NextIso]_vars

\* C11: a call of plot_marginal or plot_replicated_data that fails because
\* the object's catalogue row or archive is missing writes and renames no
\* file and leaves no figure or archive handle open: it changes nothing a
\* later call for another object depends on.
C11_FailureIsolation ==
    [][(/\ last'.op \in {"plot_marginal", "plot_replicated_data"}
        /\ last'.exception \in {"MissingRow", "IOError"})
           => UNCHANGED <<fs, plot_dir, open, rng, data_fs, data_dir>>]_vars

(***************************************************************************)
(* The order of the replicated draws (SpecPerm).                           *)
(***************************************************************************)
\* Three draws from three posterior samples; the first band measured, the
\* second not.
InitPerm ==
    /\ wl_eff = <<1, 2>>
    /\ obs_flux \in {<<o, 0>> : o \in 1..MaxFlux}
    /\ obs_flux_err \in {<<e, 0>> : e \in 1..MaxErr}
    /\ model_sed = <<<<0, 1, 0>>, <<0, 0, 0>>>>
    /\ probability = <<1, 1, 1>>
    /\ replic_data \in [1..3 -> [row_index : 1..3, flux : {<<f, 0>> : f \in Fluxes}]]
    /\ attrs = {}
    /\ fs = {}
    /\ plot_dir = FALSE
    /\ now = 0
    /\ rng = 0
    /\ last = NoCall
    /\ catalogue = catalogue_row(obs_flux, obs_flux_err)
    /\ observed_from(catalogue, obs_flux, obs_flux_err)
    /\ present = AllInputs
    /\ modules = {}
    /\ open = {}
    /\ data_fs = {}
    /\ data_dir = FALSE

NextPerm ==
    \E nf_raises \in BOOLEAN : plot_replicated_data(1, <<1>>, FALSE, FALSE, nf_raises)

SpecPerm == InitPerm /\ [][NextPerm]_vars

\* The orders the draws of the table can be put in.
DrawOrders == {pi \in [Draws -> Draws] : \A a, b \in Draws : pi[a] = pi[b] => a = b}

\* The table with its rows, row_index included, in the order pi.
reordered(pi) == [k \in Draws |-> replic_data[pi[k]]]

\* C12: the per-band p-values of the replicated-data table with its rows
\* (and their row_index) put in any other order are those of the table.
C12_DrawOrder ==
    Replicated =>
        \A pi \in DrawOrders :
            p_value_bands(obs_flux, obs_flux_err, model_sed, reordered(pi))
                = last.p_value_bands

\* C12 witness: three draws, not all alike, some but not all of which
\* exceed the observed discrepancy in the measured band.
C12_Witness ==
    /\ Replicated
    /\ Len(replic_data) = 3
    /\ \E a, b \in Draws : replic_data[a] # replic_data[b]
    /\ \E b \in DOMAIN obs_flux_err :
          obs_flux_err[b] > 0 /\ last.p_value_bands[b][1] \in 1..2

(***************************************************************************)
(* The weighted posterior sample (SpecMed).                                *)
(***************************************************************************)
\* Posterior probabilities of three samples: non-negative, not all zero.
Weights == {w \in [1..3 -> 0..MaxWeight] : \E k \in 1..3 : w[k] > 0}

\* Three posterior samples with every flux in the first band and every
\* weight; the second band is constant.
InitMed ==
    /\ wl_eff = <<1, 2>>
    /\ obs_flux = <<1, 1>>
    /\ obs_flux_err = <<1, 1>>
    /\ model_sed \in {<<x, <<0, 0, 0>>>> : x \in [1..3 -> Fluxes]}
    /\ probability \in Weights
    /\ replic_data = <<>>
    /\ attrs = {}
    /\ fs = {}
    /\ plot_dir = FALSE
    /\ now = 0
    /\ rng = 0
    /\ last = NoCall
    /\ catalogue = catalogue_row(obs_flux, obs_flux_err)
    /\ observed_from(catalogue, obs_flux, obs_flux_err)
    /\ present = AllInputs
    /\ modules = {}
    /\ open = {}
    /\ data_fs = {}
    /\ data_dir = FALSE

NextMed == \E replot \in BOOLEAN : plot_marginal(1, FALSE, FALSE, replot, FALSE)

SpecMed == InitMed /\ [][NextMed]_vars

\* The weight of the samples of band b with flux at most v.
weight_up_to(b, v) ==
    SeqSum([k \in DOMAIN probability |-> IF model_sed[b][k] <= v THEN probability[k] ELSE 0])

Uniform == \A k \in DOMAIN probability : probability[k] = probability[1]

\* v is the ordinary median of the odd-length sample of band b: fewer than
\* half of the values lie below it and fewer than half above.
OrdinaryMedian(b, v) ==
    /\ \E k \in DOMAIN model_sed[b] : model_sed[b][k] = v
    /\ 2 * Cardinality({k \in DOMAIN model_sed[b] : model_sed[b][k] < v}) < Len(model_sed[b])
    /\ 2 * Cardinality({k \in DOMAIN model_sed[b] : model_sed[b][k] > v}) < Len(model_sed[b])

\* C13: for a non-degenerate band the weighted median lies within the
\* sample's [min, max], at least half of the total weight lies at or below
\* it, and with uniform weights and an odd number of samples it is the
\* ordinary median.
C13_WeightedMedian ==
    MarginalDone =>
        \A b \in DOMAIN model_sed :
            ~Constant(b) =>
                /\ last.min_flux[b] <= last.median_flux[b]
                /\ last.median_flux[b] <= last.max_flux[b]
                /\ 2 * weight_up_to(b, last.median_flux[b]) >= SeqSum(probability)
                /\ (Uniform /\ Len(model_sed[b]) % 2 = 1)
                       => OrdinaryMedian(b, last.median_flux[b])

\* C13 witness: unequal weights that move the median away from the middle
\* value of the sample.
C13_Witness ==
    /\ MarginalDone
    /\ ~Uniform
    /\ \E b \in DOMAIN model_sed :
          /\ ~Constant(b)
          /\ Len(model_sed[b]) = 3
          /\ ~OrdinaryMedian(b, last.median_flux[b])

(***************************************************************************)
(* Saving without overwriting (SpecSave).                                  *)
(***************************************************************************)
\* What a call of one of the two helpers, followed by a write at the
\* returned path, did: whether the existing file was renamed, whether the
\* rename replaced a file already held by the new name, whether the returned
\* path was free on return and whether the directory existed.
saving_call(op, name, existed, prep) ==
    [op |-> op, ID |-> name[1], args |-> <<name[2]>>, existed |-> existed,
     returned_early |-> FALSE,
     effects |-> (IF prep.renamed THEN <<"rename">> ELSE <<>>) \o <<"write">>,
     exception |-> "none", saved |-> TRUE,
     renamed |-> prep.renamed, replaced |-> prep.replaced,
     free |-> name \notin prep.files, dir |-> prep.dir]

\* name = prepare_plot_saving(file_name); a file is written at name.
write_plot(name) ==
    LET prep == prepare_plot_saving(name, fs, now)
    IN  /\ fs' = savefig(name, prep.files)
        /\ plot_dir' = prep.dir
        /\ last' = saving_call("prepare_plot_saving", name, name \in fs, prep)
        /\ UNCHANGED <<data_vars, now, rng, open, store_vars>>

\* name = prepare_data_saving(file_name); a file is written at name.
write_data(name) ==
    LET prep == prepare_data_saving(name, data_fs, now)
    IN  /\ data_fs' = prep.files \cup {name}
        /\ data_dir' = prep.dir
        /\ last' = saving_call("prepare_data_saving", name, name \in data_fs, prep)
        /\ UNCHANGED <<data_vars, fs, plot_dir, now, rng, open>>

InitSave ==
    /\ wl_eff = <<1, 2>>
    /\ obs_flux = <<1, 1>>
    /\ obs_flux_err = <<1, 1>>
    /\ model_sed = <<<<0, 1>>, <<1, 0>>>>
    /\ probability = <<1, 1>>
    /\ replic_data = <<>>
    /\ attrs = {}
    /\ fs = {}
    /\ plot_dir = FALSE
    /\ now = 0
    /\ rng = 0
    /\ last = NoCall
    /\ catalogue = catalogue_row(obs_flux, obs_flux_err)
    /\ observed_from(catalogue, obs_flux, obs_flux_err)
    /\ present = AllInputs
    /\ modules = {}
    /\ open = {}
    /\ data_fs = {}
    /\ data_dir = FALSE

NextSave ==
    \/ \E kind \in {"marginal_SED_phot", "replic_data_phot"} : write_plot(plot_name(1, kind))
    \/ write_data(plot_name(1, "data"))
    \/ Tick

SpecSave == InitSave /\ [][NextSave]_vars

Saving == last.op \in {"prepare_plot_saving", "prepare_data_saving"}

\* C14: with overwrite=False, after any sequence of calls each followed by a
\* write at the returned path, no written file is lost: an existing file is
\* moved to a timestamped name that held no other file, the returned path
\* holds no file on return, and the output directory exists.
C14_NoFileLost ==
    Saving =>
        /\ last.renamed => ~last.replaced
        /\ last.free
        /\ last.dir
        /\ (last.op = "prepare_plot_saving" => plot_dir)
        /\ (last.op = "prepare_data_saving" => data_dir)

(***************************************************************************)
(* match_ID (SpecMatch).  Positions are counted from 1; the -1 of an       *)
(* unmatched position is 0 here.                                           *)
(***************************************************************************)
\* np.argsort(x)
np_argsort(x) == value_order(x, DOMAIN x)

\* bisect_left(a, v) on the sorted sequence a: the first position whose
\* value is not below v (Len(a) + 1 when there is none).
bisect_left(a, v) == Cardinality({k \in DOMAIN a : a[k] < v}) + 1

\* x[x >= 0]: the set positions, in order.
RECURSIVE matched(_)
matched(x) ==
    IF x = <<>> THEN <<>>
    ELSE (IF Head(x) > 0 THEN <<Head(x)>> ELSE <<>>) \o matched(Tail(x))

\* match_ID(ID_list_1, ID_list_2, sorted=False)
match_ID_of(ID_list_1, ID_list_2) ==
    LET n1 == Len(ID_list_1)
        n2 == Len(ID_list_2)
        ID_long == IF n1 >= n2 THEN ID_list_1 ELSE ID_list_2
        ID_short == IF n1 >= n2 THEN ID_list_2 ELSE ID_list_1
        n_long == Len(ID_long)
        n_short == Len(ID_short)
        sort_long == np_argsort(ID_long)
        sort_short == np_argsort(ID_short)
        sorted_long == [k \in 1..n_long |-> ID_long[sort_long[k]]]
        i1(i) == bisect_left(sorted_long, ID_short[sort_short[i]])
        hit(i) == /\ i1(i) <= n_long
                  /\ ID_long[sort_long[i1(i)]] = ID_short[sort_short[i]]
        match_indx_long == [p \in 1..n_long |->
                               IF \E i \in 1..n_short : hit(i) /\ i1(i) = p
                               THEN sort_long[p] ELSE 0]
        match_indx_short == [i \in 1..n_short |-> IF hit(i) THEN sort_short[i] ELSE 0]
    IN  [indices_1 |-> IF n1 >= n2 THEN matched(match_indx_long)
                       ELSE matched(match_indx_short),
         indices_2 |-> IF n1 >= n2 THEN matched(match_indx_short)
                       ELSE matched(match_indx_long)]

RECURSIVE SeqsUpTo(_, _)
SeqsUpTo(S, n) ==
    IF n = 0 THEN {<<>>}
    ELSE SeqsUpTo(S, n - 1) \cup [1..n -> S]

\* The ID lists of two catalogues.
IDLists == SeqsUpTo(1..MaxID, MaxLen)

match_ID(ID_list_1, ID_list_2) ==
    LET r == match_ID_of(ID_list_1, ID_list_2)
    IN  /\ last.op \in {"none", "match_ID_done"}
        /\ last' = [op |-> "match_ID", ID |-> 0,
                    args |-> [ID_list_1 |-> ID_list_1, ID_list_2 |-> ID_list_2],
                    existed |-> FALSE, returned_early |-> FALSE, effects |-> <<>>,
                    exception |-> "none", saved |-> FALSE,
                    indices_1 |-> r.indices_1, indices_2 |-> r.indices_2]
        /\ UNCHANGED <<data_vars, fs, plot_dir, now, rng, open, store_vars>>

\* The caller drops the result.
Forget ==
    /\ last.op = "match_ID"
    /\ last' = [NoCall EXCEPT !.op = "match_ID_done"]
    /\ UNCHANGED <<data_vars, fs, plot_dir, now, rng, open, store_vars>>

NextMatch ==
    \/ \E l1 \in IDLists, l2 \in IDLists : match_ID(l1, l2)
    \/ Forget

SpecMatch == InitSave /\ [][NextMatch]_vars

\* C15: for any two ID lists the two index arrays have the same length, the
\* IDs they select agree position by position, and every ID present in both
\* lists is selected.
C15_MatchID ==
    last.op = "match_ID" =>
        LET l1 == last.args.ID_list_1
            l2 == last.args.ID_list_2
            x1 == last.indices_1
            x2 == last.indices_2
        IN  /\ Len(x1) = Len(x2)
            /\ \A k \in DOMAIN x1 : k \in DOMAIN x2 => l1[x1[k]] = l2[x2[k]]
            /\ \A a \in DOMAIN l1, b \in DOMAIN l2 :
                   l1[a] = l2[b] => \E k \in DOMAIN x1 : l1[x1[k]] = l1[a]

\* The same statement for lists that hold no ID twice.
MatchDistinct ==
    (/\ last.op = "match_ID"
     /\ NoDuplicates(last.args.ID_list_1)
     /\ NoDuplicates(last.args.ID_list_2)) => C15_MatchID

(***************************************************************************)
(* The number of draws displayed.                                          *)
(***************************************************************************)
\* The number n_replic_to_plot asks for: N itself, or n_x * n_y.
requested(arg) == IF Len(arg) = 1 THEN arg[1] ELSE arg[1] * arg[2]

\* C16: a call that completes displays as many replicated data as
\* n_replic_to_plot says: N for a single number N, n_x * n_y for a pair.
C16_NumberPlotted ==
    (Replicated /\ last.exception = "none") =>
        /\ last.n_panels = requested(last.args.n_replic_to_plot)
        /\ Len(last.replic_data_rows) = requested(last.args.n_replic_to_plot)

(***************************************************************************)
(* The covariance of the residuals.                                        *)
(***************************************************************************)
\* The position of effect e in the call's effects (0 when absent).
effect_at(e) ==
    IF \E p \in DOMAIN last.effects : last.effects[p] = e
    THEN CHOOSE p \in DOMAIN last.effects : last.effects[p] = e
    ELSE 0

\* C17: the residual matrix given to np.cov has one row per band and one
\* column per draw whatever the errors are (the error > 0 mask is not
\* applied), and the covariance is computed before the heatmap branch and
\* whether or not the heatmap library is loaded.
C17_Covariance ==
    Replicated =>
        /\ Len(last.residual_fluxes) = Len(obs_flux_err)
        /\ \A i \in DOMAIN last.residual_fluxes :
              /\ Len(last.residual_fluxes[i]) = Len(replic_data)
              /\ \A k \in DOMAIN replic_data :
                    last.residual_fluxes[i][k]
                        = Quot(replic_data[k].flux[i] - obs_flux[i], obs_flux_err[i])
        /\ effect_at("cov") > 0
        /\ effect_at("cov") = effect_at("open_replic_hdu") + 1
        /\ (effect_at("seed") > 0 => effect_at("cov") < effect_at("seed"))

\* C17 witness: a band without a measurement still has its row, and the
\* covariance was computed although the heatmap branch was entered.
C17_Witness ==
    /\ Replicated
    /\ \E i \in DOMAIN obs_flux_err : obs_flux_err[i] = 0
    /\ \E i \in DOMAIN obs_flux_err : obs_flux_err[i] > 0
    /\ "sns" \in modules
    /\ last.exception = "NameError"
    /\ effect_at("cov") > 0
    /\ Len(last.residual_fluxes) = 2
    /\ Len(replic_data) = 2

(***************************************************************************)
(* extract_fluxes on every catalogue row (SpecCat).                        *)
(***************************************************************************)
CatBands == 1..2

\* Catalogue rows: fluxes of either sign, errors including the non-positive
\* values that flag a missing measurement, min_rel_err of 0 or 0.1.
CatalogueRows ==
    [flux : [CatBands -> (0 - MaxFlux)..MaxFlux],
     flux_err : [CatBands -> (0 - 1)..MaxErr],
     min_rel_err : [CatBands -> {0, 1}]]

\* A loaded catalogue from which nothing has been extracted yet.
InitCat ==
    /\ wl_eff = [i \in CatBands |-> i]
    /\ obs_flux = <<>>
    /\ obs_flux_err = <<>>
    /\ model_sed = <<>>
    /\ probability = <<>>
    /\ replic_data = <<>>
    /\ attrs = {}
    /\ fs = {}
    /\ plot_dir = FALSE
    /\ now = 0
    /\ rng = 0
    /\ last = NoCall
    /\ catalogue \in CatalogueRows
    /\ present = AllInputs
    /\ modules = {}
    /\ open = {}
    /\ data_fs = {}
    /\ data_dir = FALSE

\* flux, flux_err = extract_fluxes(filters, ID)
extract_fluxes(ID) ==
    /\ <<"row", ID>> \in present
    /\ last' = [op |-> "extract_fluxes", ID |-> ID, args |-> <<>>, existed |-> FALSE,
                returned_early |-> FALSE, effects |-> <<"extract_row">>,
                exception |-> "none", saved |-> FALSE,
                flux |-> extract_fluxes_of(catalogue).flux,
                flux_err |-> extract_fluxes_of(catalogue).flux_err]
    /\ UNCHANGED <<data_vars, fs, plot_dir, now, rng, open, store_vars>>

NextCat == \E ID \in IDs : extract_fluxes(ID)

SpecCat == InitCat /\ [][NextCat]_vars

\* The returned error r is at least the number e.
err_at_least(r, e) == r.kind = "finite" /\ r.sign > 0 /\ r.sq[1] >= Sq(e) * r.sq[2]

\* C18: extract_fluxes preserves the measured/unmeasured mask: the returned
\* error is > 0 exactly when the catalogue error is > 0, whatever the flux;
\* a zero error is returned as zero; and the quadrature sum never makes a
\* positive error smaller or non-positive.
C18_MaskPreserved ==
    last.op = "extract_fluxes" =>
        \A j \in DOMAIN catalogue.flux :
            /\ err_positive(last.flux_err[j]) <=> catalogue.flux_err[j] > 0
            /\ catalogue.flux_err[j] = 0 => err_equals(last.flux_err[j], 0)
            /\ catalogue.flux_err[j] > 0
                   => err_at_least(last.flux_err[j], catalogue.flux_err[j])

\* The same statement for rows whose measured fluxes are positive.
MaskPreservedPositive ==
    (last.op = "extract_fluxes"
        /\ \A j \in DOMAIN catalogue.flux :
               catalogue.flux_err[j] > 0 => catalogue.flux[j] > 0)
    => C18_MaskPreserved

====
